---- MODULE Spec2Model ----
(***************************************************************************)
(* A model of codex_gateway: the readiness evaluator of doctor.py          *)
(* (_env_bool, _normalize_provider, the probes and run_doctor) and the     *)
(* chat request normalizer of openai_compat.py (messages_to_prompt,        *)
(* extract_image_urls).                                                    *)
(*                                                                         *)
(* Python values are tagged records [t, v]; a Python str is a sequence of  *)
(* one-character strings, so that strip(), lower(), upper(), join() and    *)
(* f-string concatenation are computed character by character.             *)
(***************************************************************************)
EXTENDS Integers, Sequences, FiniteSets, TLC

VARIABLES
    \* _normalize_provider applied to one value, then to its own result
    np_pc, np_raw, np_out, np_again,
    \* run_doctor: its position, its locals, its report and its exit code
    pc, env_provider, provider, claude_use_oauth, gemini_use_cloudcode,
    codex_bin, codex_auth, gemini_bin, gemini_creds, claude_bin, claude_oauth,
    cursor_bin, codex_ready, gemini_ready, claude_ready, cursor_ready,
    checks, workspace, result, code,
    \* what each Claude OAuth probe of the run met and returned, in call
    \* order, and the number of calls of maybe_refresh_claude_oauth
    oauth_log, refresh_calls,
    \* a chat request, its prompt and its image URLs
    chat_pc, messages, prompt, image_urls

providerVars == <<np_pc, np_raw, np_out, np_again>>

doctorVars ==
    <<pc, env_provider, provider, claude_use_oauth, gemini_use_cloudcode,
      codex_bin, codex_auth, gemini_bin, gemini_creds, claude_bin,
      claude_oauth, cursor_bin, codex_ready, gemini_ready, claude_ready,
      cursor_ready, checks, workspace, result, code, oauth_log, refresh_calls>>

chatVars == <<chat_pc, messages, prompt, image_urls>>

vars == <<providerVars, doctorVars, chatVars>>

(***************************************************************************)
(* Bounds.                                                                 *)
(***************************************************************************)
\* longest run of whitespace put on either side of a provider selection
MaxPad == 1

\* number of distinct error texts the Claude OAuth refresher may raise with
MaxErr == 1

\* longest list of messages of a chat request
MaxMsgs == 2

(***************************************************************************)
(* Python values.                                                          *)
(***************************************************************************)
PyNone == [t |-> "none", v |-> <<>>]

PyStr(s) == [t |-> "str", v |-> s]

IsStr(x) == x.t = "str"

\* Python truthiness of an optional str: None and "" are falsy
Truthy(x) == IsStr(x) /\ Len(x.v) > 0

\* (x or ""), for x an optional str
OrEmpty(x) == IF Truthy(x) THEN x.v ELSE <<>>

(***************************************************************************)
(* str methods.                                                            *)
(***************************************************************************)
Lowers == <<"a", "b", "c", "d", "e", "f", "g", "h", "i", "j", "k", "l", "m",
            "n", "o", "p", "q", "r", "s", "t", "u", "v", "w", "x", "y", "z">>

Uppers == <<"A", "B", "C", "D", "E", "F", "G", "H", "I", "J", "K", "L", "M",
            "N", "O", "P", "Q", "R", "S", "T", "U", "V", "W", "X", "Y", "Z">>

Whitespace == {" ", "\t", "\n", "\r"}

LowerChar(c) ==
    IF \E i \in 1..Len(Uppers) : Uppers[i] = c
    THEN Lowers[CHOOSE i \in 1..Len(Uppers) : Uppers[i] = c]
    ELSE c

UpperChar(c) ==
    IF \E i \in 1..Len(Lowers) : Lowers[i] = c
    THEN Uppers[CHOOSE i \in 1..Len(Lowers) : Lowers[i] = c]
    ELSE c

\* str.lower()
Lower(s) == [i \in 1..Len(s) |-> LowerChar(s[i])]

\* str.upper()
Upper(s) == [i \in 1..Len(s) |-> UpperChar(s[i])]

RECURSIVE LStrip(_)
LStrip(s) ==
    IF s # <<>> /\ Head(s) \in Whitespace THEN LStrip(Tail(s)) ELSE s

RECURSIVE RStrip(_)
RStrip(s) ==
    IF s # <<>> /\ s[Len(s)] \in Whitespace
    THEN RStrip(SubSeq(s, 1, Len(s) - 1))
    ELSE s

\* str.strip()
Strip(s) == RStrip(LStrip(s))

(***************************************************************************)
(* doctor.py: _normalize_provider.                                         *)
(***************************************************************************)
AUTO == <<"a", "u", "t", "o">>

CODEX == <<"c", "o", "d", "e", "x">>

GEMINI == <<"g", "e", "m", "i", "n", "i">>

CLAUDE == <<"c", "l", "a", "u", "d", "e">>

CURSOR_AGENT == <<"c", "u", "r", "s", "o", "r", "-", "a", "g", "e", "n", "t">>

CURSOR == <<"c", "u", "r", "s", "o", "r">>

CURSORAGENT == <<"c", "u", "r", "s", "o", "r", "a", "g", "e", "n", "t">>

CURSOR_UNDERSCORE_AGENT ==
    <<"c", "u", "r", "s", "o", "r", "_", "a", "g", "e", "n", "t">>

\* the mutant: the selection is compared without lower-casing it
NormalizeProviderCaseSensitive(raw) ==
    LET p == Strip(OrEmpty(raw))
    IN  IF p = <<>> THEN AUTO
        ELSE IF p \in {AUTO, CODEX, GEMINI, CLAUDE, CURSOR_AGENT} THEN p
        ELSE IF p \in {CURSOR, CURSORAGENT, CURSOR_UNDERSCORE_AGENT}
             THEN CURSOR_AGENT
        ELSE AUTO

_normalize_provider(raw) ==
    LET p == Lower(Strip(OrEmpty(raw)))
    IN  IF p = <<>> THEN AUTO
        ELSE IF p \in {AUTO, CODEX, GEMINI, CLAUDE, CURSOR_AGENT} THEN p
        ELSE IF p \in {CURSOR, CURSORAGENT, CURSOR_UNDERSCORE_AGENT}
             THEN CURSOR_AGENT
        ELSE AUTO

(***************************************************************************)
(* The provider selections tried: a base word, in one of three letter      *)
(* cases, between two runs of whitespace; or no value at all.              *)
(***************************************************************************)
OPENAI == <<"o", "p", "e", "n", "a", "i">>

CURSOR_SPACE_AGENT ==
    <<"c", "u", "r", "s", "o", "r", " ", "a", "g", "e", "n", "t">>

CODEXES == <<"c", "o", "d", "e", "x", "e", "s">>

BaseWords ==
    {<<>>, AUTO, CODEX, GEMINI, CLAUDE, CURSOR_AGENT, CURSOR, CURSORAGENT,
     CURSOR_UNDERSCORE_AGENT, OPENAI, CURSOR_SPACE_AGENT, CODEXES}

LetterCases == {"lower", "upper", "title"}

Cased(w, lc) ==
    CASE lc = "lower" -> w
      [] lc = "upper" -> Upper(w)
      [] lc = "title" -> [i \in 1..Len(w) |-> IF i = 1 THEN UpperChar(w[i]) ELSE w[i]]

RECURSIVE SeqsUpTo(_, _)
SeqsUpTo(S, n) ==
    IF n = 0 THEN {<<>>}
    ELSE LET shorter == SeqsUpTo(S, n - 1)
         IN  shorter \cup {<<c>> \o s : c \in S, s \in {x \in shorter : Len(x) = n - 1}}

Pads == SeqsUpTo({" ", "\t"}, MaxPad)

RawValue(l, w, lc, r) == PyStr(l \o Cased(w, lc) \o r)

RawProviders ==
    {PyNone} \cup {RawValue(l, w, lc, r) : l \in Pads, w \in BaseWords, lc \in LetterCases, r \in Pads}

(***************************************************************************)
(* doctor.py: _env_bool.                                                   *)
(***************************************************************************)
TrueWords == {<<"1">>, <<"t", "r", "u", "e">>, <<"y", "e", "s">>, <<"y">>, <<"o", "n">>}

FalseWords ==
    {<<"0">>, <<"f", "a", "l", "s", "e">>, <<"n", "o">>, <<"n">>, <<"o", "f", "f">>}

_env_bool(value, default) ==
    LET v == Lower(Strip(OrEmpty(value)))
    IN  IF v = <<>> THEN default
        ELSE IF v \in TrueWords THEN TRUE
        ELSE IF v \in FalseWords THEN FALSE
        ELSE default

(***************************************************************************)
(* doctor.py: CheckResult and the probes.  A name or a details text is the *)
(* sequence of the fragments its f-string joins.  Each probe takes, after  *)
(* its own parameters, what it finds outside the process: the programs on  *)
(* PATH, a loaded credential artifact, a credential file and what the      *)
(* refresher does with it.                                                 *)
(***************************************************************************)
CheckResult(name, ok, required, details) ==
    [name |-> name, ok |-> ok, required |-> required, details |-> details]

\* a local of run_doctor that holds no CheckResult (yet, or any more)
Unset == [name |-> <<>>, ok |-> FALSE, required |-> FALSE, details |-> <<>>]

_fmt_status(ok, required) ==
    IF ok THEN "OK" ELSE IF required THEN "FAIL" ELSE "WARN"

\* shutil.which(name), with the programs installed on PATH
_which(name, installed) ==
    IF name \in installed THEN PyStr(<<"/usr/bin/", name>>) ELSE PyNone

_check_binary(label, bin_name, required, installed) ==
    LET p == _which(bin_name, installed)
    IN  CheckResult(<<label, " binary">>, Truthy(p), required,
                    IF Truthy(p) THEN p.v ELSE <<"not found on PATH: ", bin_name>>)

_check_codex_auth(required, auth) ==
    LET ok == Truthy(auth.access_token) \/ Truthy(auth.api_key)
    IN  CheckResult(<<"Codex auth">>, ok, required,
                    IF ok THEN <<"auth ok">>
                    ELSE <<"missing ~/.codex/auth.json tokens (run codex login)">>)

\* Path(...).expanduser()
ExpandUser(path) ==
    IF path # <<>> /\ Head(path) = "~" THEN <<"/home/user">> \o Tail(path) ELSE path

\* str(bool(x))
BoolText(x) == IF Truthy(x) THEN "True" ELSE "False"

GeminiCredsPath == ExpandUser(<<"~", "/.gemini/oauth_creds.json">>)

_check_gemini_creds(required, file) ==
    LET path == GeminiCredsPath
        creds == file.creds
        ok == Truthy(creds.access_token) \/ Truthy(creds.refresh_token)
    IN  IF ~file.exists
        THEN CheckResult(<<"Gemini OAuth cache">>, FALSE, required,
                         <<"missing: ">> \o path \o <<" (run gemini auth login)">>)
        ELSE CheckResult(<<"Gemini OAuth cache">>, ok, required,
                         path \o <<" (access=", BoolText(creds.access_token),
                                   " refresh=", BoolText(creds.refresh_token), ")">>)

ClaudeCredsPath == ExpandUser(<<"~", "/.claude/oauth_creds.json">>)

\* What a call of the probe gives its caller: the CheckResult it returns, or
\* an exception it lets through (raised), and the calls of the refresher made.

\* the mutant: the probe without its try/except around the refresh
CheckClaudeOauthUncaught(required, file) ==
    LET path == ClaudeCredsPath
        creds == file.refresh.creds
        ok == Truthy(creds.access_token) \/ Truthy(creds.refresh_token)
    IN  IF ~file.exists
        THEN [raised |-> FALSE, calls |-> 0,
              result |-> CheckResult(<<"Claude OAuth cache">>, FALSE, required,
                  <<"missing: ">> \o path
                  \o <<" (run uv run python -m codex_gateway.claude_oauth_login)">>)]
        ELSE IF file.refresh.raises
        THEN [raised |-> TRUE, calls |-> 1, result |-> Unset]
        ELSE [raised |-> FALSE, calls |-> 1,
              result |-> CheckResult(<<"Claude OAuth cache">>, ok, required,
                  path \o <<" (access=", BoolText(creds.access_token),
                            " refresh=", BoolText(creds.refresh_token), ")">>)]

_check_claude_oauth_refreshable(required, file) ==
    LET path == ClaudeCredsPath
        creds == file.refresh.creds
        ok == Truthy(creds.access_token) \/ Truthy(creds.refresh_token)
    IN  IF ~file.exists
        THEN [raised |-> FALSE, calls |-> 0,
              result |-> CheckResult(<<"Claude OAuth cache">>, FALSE, required,
                  <<"missing: ">> \o path
                  \o <<" (run uv run python -m codex_gateway.claude_oauth_login)">>)]
        ELSE IF file.refresh.raises
        THEN [raised |-> FALSE, calls |-> 1,
              result |-> CheckResult(<<"Claude OAuth cache">>, FALSE, required,
                  path \o <<" (refresh failed: ", file.refresh.error, ")">>)]
        ELSE [raised |-> FALSE, calls |-> 1,
              result |-> CheckResult(<<"Claude OAuth cache">>, ok, required,
                  path \o <<" (access=", BoolText(creds.access_token),
                            " refresh=", BoolText(creds.refresh_token), ")">>)]

\* dir: whether the path of CODEX_WORKSPACE exists and is a directory
_check_workspace_file(required, workspace_env, dir) ==
    IF ~Truthy(workspace_env)
    THEN CheckResult(<<"CODEX_WORKSPACE">>, TRUE, required, <<"not set">>)
    ELSE LET path == ExpandUser(workspace_env.v)
         IN  CheckResult(<<"CODEX_WORKSPACE">>, dir, required,
                         IF dir THEN path ELSE <<"missing or not a directory: ">> \o path)

(***************************************************************************)
(* What the probes may find.                                               *)
(***************************************************************************)
Binaries == {"codex", "gemini", "claude", "cursor-agent"}

Token == PyStr(<<"t", "o", "k">>)

\* load_codex_auth returns an artifact with an optional access_token and api_key
CodexAuths ==
    {[access_token |-> PyNone, api_key |-> PyNone],
     [access_token |-> PyStr(<<>>), api_key |-> Token]}

NoCreds == [access_token |-> PyNone, refresh_token |-> PyNone]

\* load_gemini_creds and maybe_refresh_claude_oauth return an artifact with an
\* optional access_token and refresh_token
OAuthCreds ==
    {NoCreds, [access_token |-> PyStr(<<>>), refresh_token |-> Token]}

GeminiFiles ==
    {[exists |-> FALSE, creds |-> NoCreds]}
    \cup {[exists |-> TRUE, creds |-> c] : c \in OAuthCreds}

ErrorTexts == <<"timeout", "invalid_grant", "connection reset", "bad json">>

Errors == {ErrorTexts[i] : i \in 1..MaxErr}

\* maybe_refresh_claude_oauth returns credentials or raises an Exception
Refreshes ==
    {[raises |-> TRUE, error |-> e, creds |-> NoCreds] : e \in Errors}
    \cup {[raises |-> FALSE, error |-> "", creds |-> c] : c \in OAuthCreds}

NotCalled == [raises |-> FALSE, error |-> "", creds |-> NoCreds]

ClaudeFiles ==
    {[exists |-> FALSE, refresh |-> NotCalled]}
    \cup {[exists |-> TRUE, refresh |-> r] : r \in Refreshes}

\* CODEX_WORKSPACE and whether its path is a directory
Workspaces ==
    {[env |-> PyNone, dir |-> FALSE],
     [env |-> PyStr(<<"~", "/work">>), dir |-> TRUE],
     [env |-> PyStr(<<"~", "/work">>), dir |-> FALSE]}

\* values of CODEX_PROVIDER
DoctorProviders ==
    {PyNone, PyStr(OPENAI), PyStr(CODEX), PyStr(Upper(GEMINI)),
     PyStr(<<" ">> \o CLAUDE), PyStr(CURSOR)}

\* values of the two feature flags
FlagValues ==
    {PyNone, PyStr(<<" ", "O", "n">>), PyStr(<<"0">>), PyStr(<<"m", "a", "y", "b", "e">>)}

(***************************************************************************)
(* doctor.py: run_doctor.                                                  *)
(***************************************************************************)
\* the mutant: all() for any()
RequiredFailedAll(cs) == \A i \in 1..Len(cs) : ~cs[i].ok /\ cs[i].required

\* required_failed = any((not c.ok) and c.required for c in checks)
RequiredFailed(cs) == \E i \in 1..Len(cs) : ~cs[i].ok /\ cs[i].required

\* the mutant: the warnings are taken from the required checks too
WarningsOfRequired(cs) == \E i \in 1..Len(cs) : ~cs[i].ok /\ cs[i].required

\* warnings = any((not c.ok) and (not c.required) for c in checks)
Warnings(cs) == \E i \in 1..Len(cs) : ~cs[i].ok /\ ~cs[i].required

\* codex_ready = codex_bin.ok and codex_auth.ok
CodexReady(bin, auth) == bin.ok /\ auth.ok

\* gemini_ready = gemini_bin.ok and (gemini_creds.ok if gemini_use_cloudcode else True)
GeminiReady(bin, creds, use_cloudcode) ==
    bin.ok /\ (IF use_cloudcode THEN creds.ok ELSE TRUE)

\* claude_ready = (claude_oauth.ok if claude_use_oauth else claude_bin.ok)
ClaudeReady(bin, oauth, use_oauth) == IF use_oauth THEN oauth.ok ELSE bin.ok

\* the mutant: auto is never failed for want of a ready provider
AutoOverrideNever(p, required_failed, any_ready) == required_failed

\* if provider == "auto": if not (codex_ready or ... or cursor_ready): required_failed = True
AutoOverride(p, required_failed, any_ready) ==
    IF p = AUTO /\ ~any_ready THEN TRUE ELSE required_failed

\* the mutant: a run with warnings never fails
VerdictWarningsFirst(required_failed, warnings) ==
    IF warnings THEN [result |-> "OK (with warnings)", code |-> 0]
    ELSE IF required_failed THEN [result |-> "FAIL", code |-> 1]
    ELSE [result |-> "OK", code |-> 0]

\* lines 182-190: the verdict and the exit code
Verdict(required_failed, warnings) ==
    IF required_failed THEN [result |-> "FAIL", code |-> 1]
    ELSE IF warnings THEN [result |-> "OK (with warnings)", code |-> 0]
    ELSE [result |-> "OK", code |-> 0]

\* the mutant: the workspace check is appended as a non-required check
WithWorkspaceOptional(cs, ws) ==
    IF Truthy(ws.env)
    THEN Append(cs, _check_workspace_file(FALSE, ws.env, ws.dir))
    ELSE cs

\* if os.environ.get("CODEX_WORKSPACE"): checks.append(_check_workspace_file(required=True))
WithWorkspace(cs, ws) ==
    IF Truthy(ws.env)
    THEN Append(cs, _check_workspace_file(TRUE, ws.env, ws.dir))
    ELSE cs

\* the lines printed, without the padding of the name column
Lines(cs) ==
    [i \in 1..Len(cs) |->
        [name |-> cs[i].name, status |-> _fmt_status(cs[i].ok, cs[i].required),
         details |-> cs[i].details]]

\* Once the readiness booleans are computed (lines 123-136), a CheckResult
\* local of run_doctor is read again only on the path of its own provider
\* (lines 140-153); on the other paths it leaves the state.
Local(read_again, check) == IF read_again THEN check ELSE Unset

OauthEntry(required, file, probe) ==
    [required |-> required, file |-> file, raised |-> probe.raised,
     result |-> probe.result]

\* the required= arguments of lines 123-135
CodexRequired(p) == p = CODEX

GeminiBinRequired(p) == p = GEMINI

GeminiCredsRequired(p, use_cloudcode) == p = GEMINI /\ use_cloudcode

\* the mutant: the mode test is inverted
ClaudeBinRequiredInOauthMode(p, use_oauth) == p = CLAUDE /\ use_oauth

ClaudeBinRequired(p, use_oauth) == p = CLAUDE /\ ~use_oauth

ClaudeOauthRequired(p, use_oauth) == p = CLAUDE /\ use_oauth

CursorRequired(p) == p = CURSOR_AGENT

\* lines 113-115: the selection and the two feature flags are read
ReadEnv ==
    /\ pc = "start"
    /\ \E raw \in DoctorProviders, oauth_flag \in FlagValues, cloudcode_flag \in FlagValues :
          /\ env_provider' = raw
          /\ provider' = _normalize_provider(raw)
          /\ claude_use_oauth' = _env_bool(oauth_flag, FALSE)
          /\ gemini_use_cloudcode' = _env_bool(cloudcode_flag, FALSE)
    /\ pc' = "env"
    /\ UNCHANGED <<codex_bin, codex_auth, gemini_bin, gemini_creds, claude_bin,
                   claude_oauth, cursor_bin, codex_ready, gemini_ready,
                   claude_ready, cursor_ready, checks, workspace, result, code,
                   oauth_log, refresh_calls>>

\* lines 123-136: every provider is probed and its readiness computed
ProbeProviders ==
    /\ pc = "env"
    /\ \E installed \in SUBSET Binaries, auth \in CodexAuths,
          gfile \in GeminiFiles, cfile \in ClaudeFiles :
          LET cb == _check_binary("codex", "codex", CodexRequired(provider), installed)
              ca == _check_codex_auth(CodexRequired(provider), auth)
              gb == _check_binary("gemini", "gemini", GeminiBinRequired(provider), installed)
              gc == _check_gemini_creds(
                        GeminiCredsRequired(provider, gemini_use_cloudcode), gfile)
              lb == _check_binary("claude", "claude",
                                  ClaudeBinRequired(provider, claude_use_oauth), installed)
              lreq == ClaudeOauthRequired(provider, claude_use_oauth)
              probe == _check_claude_oauth_refreshable(lreq, cfile)
              ub == _check_binary("cursor-agent", "cursor-agent",
                                  CursorRequired(provider), installed)
          IN  /\ oauth_log' = Append(oauth_log, OauthEntry(lreq, cfile, probe))
              /\ refresh_calls' = refresh_calls + probe.calls
              /\ IF probe.raised
                 THEN /\ pc' = "crashed"
                      /\ UNCHANGED <<codex_bin, codex_auth, gemini_bin, gemini_creds,
                                     claude_bin, claude_oauth, cursor_bin, codex_ready,
                                     gemini_ready, claude_ready, cursor_ready>>
                 ELSE /\ pc' = "probed"
                      /\ codex_bin' = cb
                      /\ codex_auth' = ca
                      /\ codex_ready' = CodexReady(cb, ca)
                      /\ gemini_bin' = gb
                      /\ gemini_creds' = gc
                      /\ gemini_ready' = GeminiReady(gb, gc, gemini_use_cloudcode)
                      /\ claude_bin' = lb
                      /\ claude_oauth' = probe.result
                      /\ claude_ready' = ClaudeReady(lb, probe.result, claude_use_oauth)
                      /\ cursor_bin' = ub
                      /\ cursor_ready' = ub.ok
    /\ UNCHANGED <<env_provider, provider, claude_use_oauth, gemini_use_cloudcode,
                   checks, workspace, result, code>>

\* line 138: the report list is created; from here a CheckResult local is
\* read only by the branch of its own provider (lines 140-153)
StartReport ==
    /\ pc = "probed"
    /\ pc' = "collecting"
    /\ checks' = <<>>
    /\ codex_bin' = Local(provider = CODEX, codex_bin)
    /\ codex_auth' = Local(provider = CODEX, codex_auth)
    /\ gemini_bin' = Local(provider = GEMINI, gemini_bin)
    /\ gemini_creds' = Local(provider = GEMINI, gemini_creds)
    /\ claude_bin' = Local(provider = CLAUDE, claude_bin)
    /\ claude_oauth' = Local(provider = CLAUDE, claude_oauth)
    /\ cursor_bin' = Local(provider = CURSOR_AGENT, cursor_bin)
    /\ UNCHANGED <<env_provider, provider, claude_use_oauth, gemini_use_cloudcode,
                   codex_ready, gemini_ready, claude_ready, cursor_ready,
                   workspace, result, code, oauth_log, refresh_calls>>

\* lines 167-193: the workspace check, the verdict, the return
Return(cs, ws) ==
    LET all == WithWorkspace(cs, ws)
        required_failed ==
            AutoOverride(provider, RequiredFailed(all),
                         codex_ready \/ gemini_ready \/ claude_ready \/ cursor_ready)
        verdict == Verdict(required_failed, Warnings(all))
    IN  /\ checks' = all
        /\ workspace' = ws
        /\ result' = verdict.result
        /\ code' = verdict.code
        /\ pc' = "done"

\* an exception leaves run_doctor
Crash ==
    /\ pc' = "crashed"
    /\ UNCHANGED <<checks, workspace, result, code>>

\* lines 139-193: the checks of the selection are collected, some probes
\* run again for display, and the verdict is derived
Report ==
    /\ pc = "collecting"
    /\ UNCHANGED <<env_provider, provider, claude_use_oauth, gemini_use_cloudcode,
                   codex_bin, codex_auth, gemini_bin, gemini_creds, claude_bin,
                   claude_oauth, cursor_bin, codex_ready, gemini_ready,
                   claude_ready, cursor_ready>>
    /\ \/ /\ provider = CODEX
          /\ \E ws \in Workspaces : Return(<<codex_bin, codex_auth>>, ws)
          /\ UNCHANGED <<oauth_log, refresh_calls>>
       \/ /\ provider = GEMINI
          /\ gemini_use_cloudcode
          /\ \E ws \in Workspaces : Return(<<gemini_bin, gemini_creds>>, ws)
          /\ UNCHANGED <<oauth_log, refresh_calls>>
       \/ /\ provider = GEMINI
          /\ ~gemini_use_cloudcode
          /\ \E ws \in Workspaces, gfile \in GeminiFiles :
                Return(<<gemini_bin, _check_gemini_creds(FALSE, gfile)>>, ws)
          /\ UNCHANGED <<oauth_log, refresh_calls>>
       \/ /\ provider = CLAUDE
          /\ claude_use_oauth
          /\ \E ws \in Workspaces, installed \in SUBSET {"claude"} :
                Return(<<claude_oauth, _check_binary("claude", "claude", FALSE, installed)>>, ws)
          /\ UNCHANGED <<oauth_log, refresh_calls>>
       \/ /\ provider = CLAUDE
          /\ ~claude_use_oauth
          /\ \E ws \in Workspaces, cfile \in ClaudeFiles :
                LET probe == _check_claude_oauth_refreshable(FALSE, cfile)
                IN  /\ oauth_log' = Append(oauth_log, OauthEntry(FALSE, cfile, probe))
                    /\ refresh_calls' = refresh_calls + probe.calls
                    /\ IF probe.raised THEN Crash
                       ELSE Return(<<claude_bin, probe.result>>, ws)
       \/ /\ provider = CURSOR_AGENT
          /\ \E ws \in Workspaces : Return(<<cursor_bin>>, ws)
          /\ UNCHANGED <<oauth_log, refresh_calls>>
       \/ /\ provider \notin {CODEX, GEMINI, CLAUDE, CURSOR_AGENT}
          /\ \E ws \in Workspaces, installed \in SUBSET Binaries, auth \in CodexAuths,
                gfile \in GeminiFiles, cfile \in ClaudeFiles :
                LET probe == _check_claude_oauth_refreshable(FALSE, cfile)
                IN  /\ oauth_log' = Append(oauth_log, OauthEntry(FALSE, cfile, probe))
                    /\ refresh_calls' = refresh_calls + probe.calls
                    /\ IF probe.raised THEN Crash
                       ELSE Return(<<_check_binary("codex", "codex", FALSE, installed),
                                     _check_codex_auth(FALSE, auth),
                                     _check_binary("gemini", "gemini", FALSE, installed),
                                     _check_gemini_creds(FALSE, gfile),
                                     _check_binary("claude", "claude", FALSE, installed),
                                     probe.result,
                                     _check_binary("cursor-agent", "cursor-agent",
                                                   FALSE, installed)>>, ws)

(***************************************************************************)
(* openai_compat.py: message contents.  A list is the sequence of its      *)
(* items, a dict the sequence of its <<key, value>> pairs in insertion     *)
(* order.                                                                  *)
(***************************************************************************)
PyInt(n) == [t |-> "int", v |-> n]

PyList(items) == [t |-> "list", v |-> items]

PyDict(pairs) == [t |-> "dict", v |-> pairs]

IsList(x) == x.t = "list"

IsDict(x) == x.t = "dict"

\* dict.get(key)
Get(d, key) ==
    IF \E i \in 1..Len(d.v) : d.v[i][1] = key
    THEN d.v[CHOOSE i \in 1..Len(d.v) : d.v[i][1] = key][2]
    ELSE PyNone

\* hash(x) raises TypeError for a list and for a dict
Hashable(x) == ~IsList(x) /\ ~IsDict(x)

TYPE == <<"t", "y", "p", "e">>

TEXT == <<"t", "e", "x", "t">>

IMAGE_URL == <<"i", "m", "a", "g", "e", "_", "u", "r", "l">>

INPUT_IMAGE == <<"i", "n", "p", "u", "t", "_", "i", "m", "a", "g", "e">>

URL == <<"u", "r", "l">>

DigitChars == <<"0", "1", "2", "3", "4", "5", "6", "7", "8", "9">>

RECURSIVE Digits(_)
Digits(n) ==
    IF n < 10 THEN <<DigitChars[n + 1]>>
    ELSE Digits(n \div 10) \o <<DigitChars[(n % 10) + 1]>>

RECURSIVE Join(_, _)
\* sep.join(parts)
Join(sep, parts) ==
    IF parts = <<>> THEN <<>>
    ELSE IF Len(parts) = 1 THEN parts[1]
    ELSE parts[1] \o sep \o Join(sep, Tail(parts))

RECURSIVE PyRepr(_)
\* repr(x), for values whose strings need no escaping
PyRepr(x) ==
    CASE x.t = "none" -> <<"N", "o", "n", "e">>
      [] x.t = "str" -> <<"'">> \o x.v \o <<"'">>
      [] x.t = "int" -> Digits(x.v)
      [] x.t = "list" ->
            <<"[">> \o Join(<<",", " ">>, [i \in 1..Len(x.v) |-> PyRepr(x.v[i])]) \o <<"]">>
      [] x.t = "dict" ->
            <<"{">>
            \o Join(<<",", " ">>,
                    [i \in 1..Len(x.v) |->
                        <<"'">> \o x.v[i][1] \o <<"'", ":", " ">> \o PyRepr(x.v[i][2])])
            \o <<"}">>

\* str(x)
PyStrOf(x) == IF IsStr(x) THEN x.v ELSE PyRepr(x)

(***************************************************************************)
(* openai_compat.py: normalize_message_content and messages_to_prompt.     *)
(***************************************************************************)
RECURSIVE TextParts(_)
\* the loop of lines 34-38: parts, after the items of a list content
TextParts(items) ==
    IF items = <<>> THEN <<>>
    ELSE LET part == Head(items)
         IN  IF ~IsDict(part) THEN TextParts(Tail(items))
             ELSE IF Get(part, TYPE) = PyStr(TEXT) /\ IsStr(Get(part, TEXT))
             THEN <<Get(part, TEXT).v>> \o TextParts(Tail(items))
             ELSE TextParts(Tail(items))

\* the mutant: the text parts of a list content joined by a space
NormalizeMessageContentSpaced(content) ==
    IF content.t = "none" THEN <<>>
    ELSE IF IsStr(content) THEN content.v
    ELSE IF IsList(content) THEN Join(<<" ">>, TextParts(content.v))
    ELSE IF IsDict(content) /\ Get(content, TYPE) = PyStr(TEXT) /\ IsStr(Get(content, TEXT))
    THEN Get(content, TEXT).v
    ELSE PyStrOf(content)

normalize_message_content(content) ==
    IF content.t = "none" THEN <<>>
    ELSE IF IsStr(content) THEN content.v
    ELSE IF IsList(content) THEN Join(<<>>, TextParts(content.v))
    ELSE IF IsDict(content) /\ Get(content, TYPE) = PyStr(TEXT) /\ IsStr(Get(content, TEXT))
    THEN Get(content, TEXT).v
    ELSE PyStrOf(content)

RECURSIVE PromptParts(_)
\* the loop of lines 48-51: parts, after the messages
PromptParts(msgs) ==
    IF msgs = <<>> THEN <<>>
    ELSE LET message == Head(msgs)
             role == Upper(message.role)
             text == normalize_message_content(message.content)
         IN  <<role \o <<":", " ">> \o text>> \o PromptParts(Tail(msgs))

messages_to_prompt(msgs) == Strip(Join(<<"\n", "\n">>, PromptParts(msgs)))

(***************************************************************************)
(* openai_compat.py: extract_image_urls_from_content, extract_image_urls.  *)
(* Either returns the list urls, or raises (raised) the TypeError of       *)
(* hashing an unhashable part type for the set membership test.            *)
(***************************************************************************)
ImageTypes == {PyStr(IMAGE_URL), PyStr(INPUT_IMAGE)}

\* lines 62-70 and 79-88: the URLs one mapping contributes
PartUrls(part) ==
    LET part_type == Get(part, TYPE)
        image == Get(part, IMAGE_URL)
    IN  IF ~Hashable(part_type) THEN [raised |-> TRUE, urls |-> <<>>]
        ELSE IF part_type \notin ImageTypes THEN [raised |-> FALSE, urls |-> <<>>]
        ELSE IF IsDict(image)
        THEN LET url == Get(image, URL)
             IN  [raised |-> FALSE, urls |-> IF Truthy(url) THEN <<url.v>> ELSE <<>>]
        ELSE [raised |-> FALSE, urls |-> IF Truthy(image) THEN <<image.v>> ELSE <<>>]

RECURSIVE ListUrls(_)
\* the loop of lines 76-88
ListUrls(items) ==
    IF items = <<>> THEN [raised |-> FALSE, urls |-> <<>>]
    ELSE LET part == Head(items)
             first == IF IsDict(part) THEN PartUrls(part)
                      ELSE [raised |-> FALSE, urls |-> <<>>]
             rest == ListUrls(Tail(items))
         IN  IF first.raised THEN first
             ELSE IF rest.raised THEN rest
             ELSE [raised |-> FALSE, urls |-> first.urls \o rest.urls]

extract_image_urls_from_content(content) ==
    IF content.t = "none" THEN [raised |-> FALSE, urls |-> <<>>]
    ELSE IF IsDict(content) THEN PartUrls(content)
    ELSE IF ~IsList(content) THEN [raised |-> FALSE, urls |-> <<>>]
    ELSE ListUrls(content.v)

RECURSIVE extract_image_urls(_)
extract_image_urls(msgs) ==
    IF msgs = <<>> THEN [raised |-> FALSE, urls |-> <<>>]
    ELSE LET first == extract_image_urls_from_content(Head(msgs).content)
             rest == extract_image_urls(Tail(msgs))
         IN  IF first.raised THEN first
             ELSE IF rest.raised THEN rest
             ELSE [raised |-> FALSE, urls |-> first.urls \o rest.urls]

(***************************************************************************)
(* The chat requests tried.                                                *)
(***************************************************************************)
U1 == <<"x", "/", "1">>

U2 == <<"x", "/", "2">>

TextPart(s) == PyDict(<<<<TYPE, PyStr(TEXT)>>, <<TEXT, s>>>>)

ImagePart(type, image) == PyDict(<<<<TYPE, type>>, <<IMAGE_URL, image>>>>)

UrlDict(url) == PyDict(<<<<URL, url>>>>)

\* contents of every shape with text in them
TextContents ==
    {PyNone,
     PyStr(<<>>),
     PyStr(<<"H", "i">>),
     PyStr(<<" ", "a", " ", "b", "\n">>),
     PyList(<<TextPart(PyStr(<<"a">>)), PyDict(<<<<TYPE, PyStr(<<"o">>)>>>>),
              TextPart(PyStr(<<"b">>))>>),
     PyList(<<PyStr(<<"s">>), TextPart(PyInt(5)), TextPart(PyStr(<<"c", " ">>))>>),
     TextPart(PyStr(<<"d">>)),
     TextPart(PyInt(12)),
     PyInt(7)}

\* contents of every shape with image references in them
ImageContents ==
    {ImagePart(PyStr(IMAGE_URL), UrlDict(PyStr(U1))),
     ImagePart(PyStr(INPUT_IMAGE), PyStr(U2)),
     PyList(<<ImagePart(PyStr(IMAGE_URL), UrlDict(PyStr(U1))),
              TextPart(PyStr(<<"i">>)),
              ImagePart(PyStr(INPUT_IMAGE), PyStr(U2))>>),
     PyList(<<ImagePart(PyStr(IMAGE_URL), PyStr(<<>>)),
              ImagePart(PyStr(IMAGE_URL), UrlDict(PyStr(<<>>))),
              ImagePart(PyStr(INPUT_IMAGE), UrlDict(PyInt(3))),
              PyInt(4),
              ImagePart(PyStr(TEXT), PyStr(U1)),
              ImagePart(PyStr(INPUT_IMAGE), PyStr(U1))>>),
     PyList(<<ImagePart(PyList(<<PyStr(IMAGE_URL)>>), PyStr(U1))>>)}

Contents == TextContents \cup ImageContents

Roles == {<<"s", "y", "s", "t", "e", "m">>, <<"u", "s", "e", "r">>}

ChatMessages == {[role |-> r, content |-> c] : r \in Roles, c \in Contents}

RECURSIVE ListsUpTo(_, _)
ListsUpTo(S, n) ==
    IF n = 0 THEN {<<>>}
    ELSE LET shorter == ListsUpTo(S, n - 1)
         IN  shorter \cup {<<m>> \o l : m \in S, l \in {x \in shorter : Len(x) = n - 1}}

Requests == ListsUpTo(ChatMessages, MaxMsgs)

(***************************************************************************)
(* The specifications.                                                     *)
(***************************************************************************)
ProviderIdle ==
    /\ np_pc = "idle"
    /\ np_raw = PyNone
    /\ np_out = <<>>
    /\ np_again = <<>>

DoctorIdle ==
    /\ env_provider = PyNone
    /\ provider = AUTO
    /\ claude_use_oauth = FALSE
    /\ gemini_use_cloudcode = FALSE
    /\ codex_bin = Unset
    /\ codex_auth = Unset
    /\ gemini_bin = Unset
    /\ gemini_creds = Unset
    /\ claude_bin = Unset
    /\ claude_oauth = Unset
    /\ cursor_bin = Unset
    /\ codex_ready = FALSE
    /\ gemini_ready = FALSE
    /\ claude_ready = FALSE
    /\ cursor_ready = FALSE
    /\ checks = <<>>
    /\ workspace = [env |-> PyNone, dir |-> FALSE]
    /\ result = ""
    /\ code = 0
    /\ oauth_log = <<>>
    /\ refresh_calls = 0

ChatIdle ==
    /\ chat_pc = "idle"
    /\ messages = <<>>
    /\ prompt = <<>>
    /\ image_urls = [raised |-> FALSE, urls |-> <<>>]

InitProvider ==
    /\ np_pc = "raw"
    /\ np_raw \in RawProviders
    /\ np_out = <<>>
    /\ np_again = <<>>
    /\ pc = "idle"
    /\ DoctorIdle
    /\ ChatIdle

\* provider = _normalize_provider(os.environ.get("CODEX_PROVIDER"))
Normalize ==
    /\ np_pc = "raw"
    /\ np_out' = _normalize_provider(np_raw)
    /\ np_pc' = "normalized"
    /\ UNCHANGED <<np_raw, np_again>>

\* the identifier returned, normalized once more
Renormalize ==
    /\ np_pc = "normalized"
    /\ np_again' = _normalize_provider(PyStr(np_out))
    /\ np_pc' = "renormalized"
    /\ UNCHANGED <<np_raw, np_out>>

NextProvider ==
    \/ Normalize /\ UNCHANGED <<doctorVars, chatVars>>
    \/ Renormalize /\ UNCHANGED <<doctorVars, chatVars>>

SpecProvider == InitProvider /\ [][NextProvider]_vars

InitDoctor ==
    /\ pc = "start"
    /\ DoctorIdle
    /\ ProviderIdle
    /\ ChatIdle

NextDoctor ==
    \/ ReadEnv /\ UNCHANGED <<providerVars, chatVars>>
    \/ ProbeProviders /\ UNCHANGED <<providerVars, chatVars>>
    \/ StartReport /\ UNCHANGED <<providerVars, chatVars>>
    \/ Report /\ UNCHANGED <<providerVars, chatVars>>

SpecDoctor == InitDoctor /\ [][NextDoctor]_vars

InitChat ==
    /\ chat_pc = "request"
    /\ messages \in Requests
    /\ prompt = <<>>
    /\ image_urls = [raised |-> FALSE, urls |-> <<>>]
    /\ pc = "idle"
    /\ DoctorIdle
    /\ ProviderIdle

\* prompt = messages_to_prompt(request.messages)
MessagesToPrompt ==
    /\ chat_pc = "request"
    /\ prompt' = messages_to_prompt(messages)
    /\ chat_pc' = "prompted"
    /\ UNCHANGED <<messages, image_urls>>

\* image_urls = extract_image_urls(request.messages)
ExtractImageUrls ==
    /\ chat_pc = "prompted"
    /\ image_urls' = extract_image_urls(messages)
    /\ chat_pc' = "extracted"
    /\ UNCHANGED <<messages, prompt>>

NextChat ==
    \/ MessagesToPrompt /\ UNCHANGED <<providerVars, doctorVars>>
    \/ ExtractImageUrls /\ UNCHANGED <<providerVars, doctorVars>>

SpecChat == InitChat /\ [][NextChat]_vars

(***************************************************************************)
(* C7.                                                                     *)
(***************************************************************************)
ProviderIds == {AUTO, CODEX, GEMINI, CLAUDE, CURSOR_AGENT}

\* the identifier the selection table gives a lower-case, unpadded word
Selected(w) ==
    IF w \in ProviderIds THEN w
    ELSE IF w \in {CURSOR, CURSORAGENT, CURSOR_UNDERSCORE_AGENT} THEN CURSOR_AGENT
    ELSE AUTO

\* C7: _normalize_provider is total: an absent value gives auto, and a word
\* in any letter case between any whitespace gives one of the five
\* identifiers, the one its lower-case unpadded form selects (an identifier
\* itself, cursor-agent for the three aliases, auto for everything else);
\* normalizing the identifier returned gives the same identifier.
C7_NormalizeTotalIdempotent ==
    /\ np_pc \in {"normalized", "renormalized"} =>
        /\ np_out \in ProviderIds
        /\ np_raw = PyNone => np_out = AUTO
        /\ \A l \in Pads, w \in BaseWords, lc \in LetterCases, r \in Pads :
              np_raw = RawValue(l, w, lc, r) => np_out = Selected(w)
    /\ np_pc = "renormalized" => np_again = np_out

\* an alias in upper case between whitespace was normalized to cursor-agent
\* and normalized again
C7_Witness ==
    /\ np_pc = "renormalized"
    /\ np_raw = RawValue(<<" ">>, CURSOR_UNDERSCORE_AGENT, "upper", <<"\t">>)
    /\ np_out = CURSOR_AGENT

(***************************************************************************)
(* The readiness evaluator: C1-C6, C10.                                    *)
(***************************************************************************)
Concrete == provider \in {CODEX, GEMINI, CLAUDE, CURSOR_AGENT}

IsWorkspaceCheck(c) == c.name = <<"CODEX_WORKSPACE">>

IsProviderCheck(c) == ~IsWorkspaceCheck(c)

FailedRequired == \E i \in 1..Len(checks) : checks[i].required /\ ~checks[i].ok

FailedOptional == \E i \in 1..Len(checks) : ~checks[i].required /\ ~checks[i].ok

PassedOptional == \E i \in 1..Len(checks) : ~checks[i].required /\ checks[i].ok

AnyReady == codex_ready \/ gemini_ready \/ claude_ready \/ cursor_ready

WorkspaceConfigured == Truthy(workspace.env)

WorkspaceFailed == WorkspaceConfigured /\ ~workspace.dir

\* C1: in every finished run, whatever the selection, the flags and the
\* probes' outcomes, a check of the report that is required and not ok makes
\* the verdict FAIL and the exit code 1.
C1_RequiredFailureFails ==
    (pc = "done" /\ FailedRequired) => (result = "FAIL" /\ code = 1)

\* an auto run with a provider ready that failed on its one required check,
\* the workspace, among passed and failed optional ones
C1_Witness ==
    /\ pc = "done"
    /\ provider = AUTO
    /\ AnyReady
    /\ FailedRequired
    /\ FailedOptional
    /\ PassedOptional
    /\ result = "FAIL"
    /\ code = 1

\* C2 as stated: no failed required check and a failed non-required check
\* give "OK (with warnings)" and exit code 0, for every selection, auto too.
C2_AsStated ==
    (pc = "done" /\ ~FailedRequired /\ FailedOptional)
        => (result = "OK (with warnings)" /\ code = 0)

\* C2, amended: no failed required check and a failed non-required check give
\* "OK (with warnings)" and exit code 0 when the selection is a concrete
\* provider, or is auto and at least one of the four readiness booleans is
\* true; for auto with no provider ready the verdict is FAIL.
C2_WarningsUnlessAutoNoneReady ==
    /\ (pc = "done" /\ ~FailedRequired /\ FailedOptional /\ (provider = AUTO => AnyReady))
          => (result = "OK (with warnings)" /\ code = 0)
    /\ (pc = "done" /\ provider = AUTO /\ ~AnyReady) => (result = "FAIL" /\ code = 1)

\* an auto run with one provider ready and failed optional checks
C2_Witness ==
    /\ pc = "done"
    /\ provider = AUTO
    /\ cursor_ready
    /\ ~codex_ready
    /\ FailedOptional
    /\ ~FailedRequired
    /\ result = "OK (with warnings)"

\* the readiness rules, on the CheckResults of the first probes: of every
\* provider when the probes have run, of the selected one afterwards
ReadinessRules ==
    /\ (pc = "probed" \/ provider = CODEX) =>
          codex_ready = (codex_bin.ok /\ codex_auth.ok)
    /\ (pc = "probed" \/ provider = GEMINI) =>
          gemini_ready = (gemini_bin.ok /\ (gemini_use_cloudcode => gemini_creds.ok))
    /\ (pc = "probed" \/ provider = CLAUDE) =>
          claude_ready = (IF claude_use_oauth THEN claude_oauth.ok ELSE claude_bin.ok)
    /\ (pc = "probed" \/ provider = CURSOR_AGENT) => cursor_ready = cursor_bin.ok
    /\ claude_use_oauth => claude_ready = oauth_log[1].result.ok

\* C3: with selection auto (CODEX_PROVIDER unset or unrecognized) every
\* provider check of the report is non-required, and the exit code is 1
\* exactly when none of the four readiness booleans is true or the check of a
\* configured workspace failed; the booleans are those of the readiness rules.
C3_AutoFailsIffNoneReady ==
    /\ pc \in {"probed", "collecting", "done"} => ReadinessRules
    /\ env_provider \in {PyNone, PyStr(OPENAI)} => provider = AUTO
    /\ (pc = "done" /\ provider = AUTO) =>
          /\ \A i \in 1..Len(checks) : IsProviderCheck(checks[i]) => ~checks[i].required
          /\ (code = 1) <=> (~AnyReady \/ WorkspaceFailed)

\* an auto run of an unrecognized selection with no provider ready, no
\* workspace configured, every check of the report ok, and exit code 1
C3_Witness ==
    /\ pc = "done"
    /\ env_provider = PyStr(OPENAI)
    /\ provider = AUTO
    /\ ~AnyReady
    /\ ~WorkspaceConfigured
    /\ Len(checks) = 7
    /\ \A i \in 1..Len(checks) : checks[i].ok
    /\ code = 1

Entry(name, required) == [name |-> name, required |-> required]

\* the provider part of the report: names and required flags, in order
ProviderPart ==
    LET part == SelectSeq(checks, IsProviderCheck)
    IN  [i \in 1..Len(part) |-> Entry(part[i].name, part[i].required)]

\* the table of C4
C4_Table ==
    CASE provider = CODEX ->
            <<Entry(<<"codex", " binary">>, TRUE), Entry(<<"Codex auth">>, TRUE)>>
      [] provider = GEMINI ->
            <<Entry(<<"gemini", " binary">>, TRUE),
              Entry(<<"Gemini OAuth cache">>, gemini_use_cloudcode)>>
      [] provider = CLAUDE /\ claude_use_oauth ->
            <<Entry(<<"Claude OAuth cache">>, TRUE), Entry(<<"claude", " binary">>, FALSE)>>
      [] provider = CLAUDE /\ ~claude_use_oauth ->
            <<Entry(<<"claude", " binary">>, TRUE), Entry(<<"Claude OAuth cache">>, FALSE)>>
      [] provider = CURSOR_AGENT -> <<Entry(<<"cursor-agent", " binary">>, TRUE)>>

\* C4: for a concrete selection the provider part of the report is the list
\* of (check, required) pairs the selection and the two flags fix, whatever
\* the probes and the awaited refresh gave, and holds no other provider's check.
C4_ReportFixedBySelection ==
    (pc = "done" /\ Concrete) => ProviderPart = C4_Table

\* a gemini run without the cloud-code flag whose credential check failed
C4_Witness ==
    /\ pc = "done"
    /\ provider = GEMINI
    /\ ~gemini_use_cloudcode
    /\ Len(checks) = 2
    /\ ~checks[2].ok
    /\ checks[1].ok

\* whether the check named gates the readiness of the selected provider
Gates(name) ==
    \/ provider = CODEX /\ name \in {<<"codex", " binary">>, <<"Codex auth">>}
    \/ provider = GEMINI /\ name = <<"gemini", " binary">>
    \/ provider = GEMINI /\ gemini_use_cloudcode /\ name = <<"Gemini OAuth cache">>
    \/ provider = CLAUDE /\ claude_use_oauth /\ name = <<"Claude OAuth cache">>
    \/ provider = CLAUDE /\ ~claude_use_oauth /\ name = <<"claude", " binary">>
    \/ provider = CURSOR_AGENT /\ name = <<"cursor-agent", " binary">>

\* C5 as stated: every required check of a report is a gating check of the
\* selected concrete provider.
C5_AsStated ==
    pc = "done" =>
        \A i \in 1..Len(checks) :
            checks[i].required => (provider # AUTO /\ Gates(checks[i].name))

\* C5, amended: a provider check of a report is required only when the
\* selection is that check's provider (not auto) and the check gates that
\* provider's readiness under the active mode; the CODEX_WORKSPACE check,
\* reported when a workspace is configured, is required under every
\* selection, auto included.
C5_RequiredOnlyGatesOrWorkspace ==
    pc = "done" =>
        \A i \in 1..Len(checks) :
            /\ (IsProviderCheck(checks[i]) /\ checks[i].required)
                  => (provider # AUTO /\ Gates(checks[i].name))
            /\ IsWorkspaceCheck(checks[i]) => checks[i].required

\* a claude run in OAuth mode with a workspace: the OAuth check is required,
\* the binary check is not, the workspace check is
C5_Witness ==
    /\ pc = "done"
    /\ provider = CLAUDE
    /\ claude_use_oauth
    /\ Len(checks) = 3
    /\ checks[1].required
    /\ ~checks[2].required
    /\ IsWorkspaceCheck(checks[3])
    /\ checks[3].required

\* whether the fragments of `part` appear, in order and adjacent, in `text`
Mentions(text, part) ==
    \E k \in 0..(Len(text) - Len(part)) :
        \A j \in 1..Len(part) : text[k + j] = part[j]

RECURSIVE CountExisting(_)
CountExisting(log) ==
    IF log = <<>> THEN 0
    ELSE (IF Head(log).file.exists THEN 1 ELSE 0) + CountExisting(Tail(log))

\* the names of the complete report of the selection
ExpectedNames ==
    LET names ==
            IF Concrete THEN [i \in 1..Len(C4_Table) |-> C4_Table[i].name]
            ELSE <<<<"codex", " binary">>, <<"Codex auth">>, <<"gemini", " binary">>,
                   <<"Gemini OAuth cache">>, <<"claude", " binary">>,
                   <<"Claude OAuth cache">>, <<"cursor-agent", " binary">>>>
    IN  IF WorkspaceConfigured THEN Append(names, <<"CODEX_WORKSPACE">>) ELSE names

\* C6: no call of the Claude OAuth probe lets an exception through: each
\* returns a CheckResult with the required flag it was given; with the file
\* missing the result is failed, names the expected path, and the refresher
\* was not called; with the refresher raising the result is failed and holds
\* the error text; run_doctor never ends by an exception, and a finished run
\* reports every check of the selection and returns 0 or 1.
C6_OauthProbeNeverRaises ==
    /\ pc # "crashed"
    /\ \A i \in 1..Len(oauth_log) :
          LET e == oauth_log[i]
          IN  /\ ~e.raised
              /\ e.result.name = <<"Claude OAuth cache">>
              /\ e.result.required = e.required
              /\ ~e.file.exists =>
                    (~e.result.ok /\ Mentions(e.result.details, ClaudeCredsPath))
              /\ (e.file.exists /\ e.file.refresh.raises) =>
                    (~e.result.ok /\ Mentions(e.result.details, <<e.file.refresh.error>>))
    /\ refresh_calls = CountExisting(oauth_log)
    /\ pc = "done" =>
          /\ code \in {0, 1}
          /\ [i \in 1..Len(checks) |-> checks[i].name] = ExpectedNames

\* a claude run in CLI mode: the first probe found no file, the probe run
\* again met a raising refresher, and the run finished with three checks
C6_Witness ==
    /\ pc = "done"
    /\ provider = CLAUDE
    /\ ~claude_use_oauth
    /\ Len(oauth_log) = 2
    /\ ~oauth_log[1].file.exists
    /\ oauth_log[2].file.exists
    /\ oauth_log[2].file.refresh.raises
    /\ refresh_calls = 1
    /\ Len(checks) = 3
    /\ code = 0

\* the readiness of the selected concrete provider, from its probes
SelectedReady ==
    CASE provider = CODEX -> codex_bin.ok /\ codex_auth.ok
      [] provider = GEMINI -> gemini_bin.ok /\ (gemini_use_cloudcode => gemini_creds.ok)
      [] provider = CLAUDE -> IF claude_use_oauth THEN claude_oauth.ok ELSE claude_bin.ok
      [] provider = CURSOR_AGENT -> cursor_bin.ok
      [] OTHER -> FALSE

\* C10: for a concrete selection P the exit code is 0 exactly when P's
\* readiness boolean is true and the workspace is not configured or is a
\* directory, whatever the probes of the other three providers (which have
\* run: the Claude OAuth probe is logged under every selection) and the
\* probes run again for display gave.
C10_ExitCodeOfSelectedOnly ==
    /\ (pc \in {"probed", "collecting", "done"}) => Len(oauth_log) >= 1
    /\ (pc = "done" /\ Concrete) =>
          ((code = 0) <=> (SelectedReady /\ (~WorkspaceConfigured \/ workspace.dir)))

\* a gemini run without the cloud-code flag: the credential probe passed
\* first and failed when run again, no other provider is ready, exit code 0
C10_Witness ==
    /\ pc = "done"
    /\ provider = GEMINI
    /\ ~gemini_use_cloudcode
    /\ gemini_creds.ok
    /\ ~checks[2].ok
    /\ ~codex_ready
    /\ ~claude_ready
    /\ ~cursor_ready
    /\ code = 0

(***************************************************************************)
(* The chat request normalizer: C8, C9.                                    *)
(***************************************************************************)
IsTextPart(x) == IsDict(x) /\ Get(x, TYPE) = PyStr(TEXT) /\ IsStr(Get(x, TEXT))

RECURSIVE Concat(_)
Concat(texts) == IF texts = <<>> THEN <<>> ELSE Head(texts) \o Concat(Tail(texts))

\* the content-text extraction of C8; a content of no shape C8 names is
\* coerced with str()
C8_Text(content) ==
    CASE content = PyNone -> <<>>
      [] IsStr(content) -> content.v
      [] IsList(content) ->
            LET texts == SelectSeq(content.v, IsTextPart)
            IN  Concat([i \in 1..Len(texts) |-> Get(texts[i], TEXT).v])
      [] IsTextPart(content) -> Get(content, TEXT).v
      [] OTHER -> PyStrOf(content)

C8_Line(message) == Upper(message.role) \o <<":", " ">> \o C8_Text(message.content)

\* the lines of the messages, in order, with a blank line between two
C8_Joined(msgs) ==
    Concat([i \in 1..Len(msgs) |->
               IF i = 1 THEN C8_Line(msgs[i]) ELSE <<"\n", "\n">> \o C8_Line(msgs[i])])

IsStripped(s) ==
    s = <<>> \/ (s[1] \notin Whitespace /\ s[Len(s)] \notin Whitespace)

\* C8: the prompt of a message list is its lines "<ROLE>: <text>", one per
\* message in input order, joined by a blank line, with the whitespace at the
\* two ends of the whole removed and nothing else: the prompt has no
\* whitespace at either end and is the joined lines without some whitespace
\* before and after it.
C8_PromptIsJoinedLines ==
    chat_pc \in {"prompted", "extracted"} =>
        LET joined == C8_Joined(messages)
        IN  /\ IsStripped(prompt)
            /\ \E k \in 0..Len(joined) :
                  /\ k + Len(prompt) <= Len(joined)
                  /\ SubSeq(joined, k + 1, k + Len(prompt)) = prompt
                  /\ \A j \in 1..Len(joined) :
                        (j <= k \/ j > k + Len(prompt)) => joined[j] \in Whitespace

\* a system message with a list of parts, then a user message whose text
\* ends in whitespace
C8_Witness ==
    /\ chat_pc = "prompted"
    /\ Len(messages) = 2
    /\ messages[1].role = <<"s", "y", "s", "t", "e", "m">>
    /\ messages[1].content =
          PyList(<<TextPart(PyStr(<<"a">>)), PyDict(<<<<TYPE, PyStr(<<"o">>)>>>>),
                   TextPart(PyStr(<<"b">>))>>)
    /\ messages[2].content = PyStr(<<" ", "a", " ", "b", "\n">>)
    /\ prompt = <<"S", "Y", "S", "T", "E", "M", ":", " ", "a", "b", "\n", "\n",
                  "U", "S", "E", "R", ":", " ", " ", "a", " ", "b">>

\* the URL a part names, as a list of none or one
C9_PartUrl(part) ==
    IF ~IsDict(part) \/ Get(part, TYPE) \notin ImageTypes THEN <<>>
    ELSE LET image == Get(part, IMAGE_URL)
         IN  IF IsDict(image) /\ Truthy(Get(image, URL)) THEN <<Get(image, URL).v>>
             ELSE IF Truthy(image) THEN <<image.v>>
             ELSE <<>>

C9_ContentUrls(content) ==
    IF IsList(content) THEN Concat([i \in 1..Len(content.v) |-> C9_PartUrl(content.v[i])])
    ELSE C9_PartUrl(content)

C9_Urls(msgs) == Concat([i \in 1..Len(msgs) |-> C9_ContentUrls(msgs[i].content)])

\* C9: for every message list and content shape extract_image_urls returns,
\* in message order and part order, the URLs of the image_url and
\* input_image parts, never an empty string; any other or malformed content
\* contributes no URL.
C9_UrlsInOrder ==
    chat_pc = "extracted" =>
        /\ ~image_urls.raised
        /\ image_urls.urls = C9_Urls(messages)
        /\ \A i \in 1..Len(image_urls.urls) : image_urls.urls[i] # <<>>

====
